---- MODULE Spec2Model ----
(***************************************************************************)
(* Model of src/server/checks/Specification.js: the "specification" check  *)
(* of pull requests.  Text is a sequence of one-character strings.  An     *)
(* optional JavaScript value (undefined / null or a value) is a sequence   *)
(* of length at most one: <<>> is undefined / null, <<v>> is the value v.  *)
(***************************************************************************)
EXTENDS Integers, Sequences, FiniteSets, TLC

VARIABLES
  hookPayload,   \* the event: [action, pull_request], the same for every call
  config,        \* config.specification: [title, body, template]
  templateFile,  \* the repository's PULL_REQUEST_TEMPLATE: <<>> or <<text>>
  runs,          \* the calls of execute that are made
  pc,            \* where each call is
  outcome,       \* per call and evaluator: notrun, pending, returned or threw
  fetch,         \* per call: the promise of github.readPullRequestTemplate
  fetchCount,    \* per call: the calls of github.readPullRequestTemplate
  statusWrites,  \* per call: the payloads given to github.setCommitStatus
  statusAck,     \* per call: the promise of github.setCommitStatus
  execResult     \* per call: the promise execute returned

vars == <<hookPayload, config, templateFile, runs,
          pc, outcome, fetch, fetchCount, statusWrites, statusAck, execResult>>

Undefined == <<>>
Some(v) == <<v>>

(***************************************************************************)
(* Constants of the module (lines 5-14).                                   *)
(***************************************************************************)
\* ACTIONS (a reserved word of TLA+)
Actions == {"opened", "edited", "reopened", "synchronize"}
DEFAULT_REQUIRED_LENGTH == 8
MINIMUM_LENGTH == "minimum-length"
CONTAINS_URL == "contains-url"
CONTAINS_ISSUE_NUMBER == "contains-issue-number"
WAS_ADJUSTED == "was-adjusted"

(***************************************************************************)
(* Character classes of the two regular expressions, over the characters   *)
(* the model's texts are made of.                                          *)
(***************************************************************************)
Letters == {"a", "w"}
Digits == {"1"}
WordChars == Letters \cup Digits \cup {"_"}
WhiteSpace == {" ", "\n"}
Brackets == {"(", ")", "<", ">"}
\* [^\s`!()\[\]{};:'".,<>?...] : what may not end a URL
NoUrlEnd == WhiteSpace \cup Brackets \cup {"!", ";", ":", ".", ",", "?"}

\* s[i..j-1] is not empty and made of characters of cls
AllIn(s, i, j, cls) == i < j /\ \A k \in i..(j - 1) : s[k] \in cls

(***************************************************************************)
(* String.prototype.split(' ') : the pieces between single blanks.         *)
(***************************************************************************)
RECURSIVE Split(_)
Split(s) ==
  IF \E i \in 1..Len(s) : s[i] = " "
  THEN LET i == CHOOSE k \in 1..Len(s) :
                  s[k] = " " /\ \A m \in 1..(k - 1) : s[m] # " "
       IN <<SubSeq(s, 1, i - 1)>> \o Split(SubSeq(s, i + 1, Len(s)))
  ELSE <<s>>

(***************************************************************************)
(* String.prototype.trim() : white space removed at both ends.             *)
(***************************************************************************)
RECURSIVE Trim(_)
Trim(s) ==
  IF s = <<>> THEN s
  ELSE IF Head(s) \in WhiteSpace THEN Trim(Tail(s))
  ELSE IF s[Len(s)] \in WhiteSpace THEN Trim(SubSeq(s, 1, Len(s) - 1))
  ELSE s

(***************************************************************************)
(* ISSUE_PATTERN  /^(?:[-\w]+\/[-\w]+)?#\d+$/  tested on one piece.        *)
(***************************************************************************)
IssueMatch(t) ==
  \E h \in 1..Len(t) :
     /\ t[h] = "#"
     /\ AllIn(t, h + 1, Len(t) + 1, Digits)
     /\ \/ h = 1
        \/ \E p \in 2..(h - 2) :
              /\ t[p] = "/"
              /\ AllIn(t, 1, p, WordChars \cup {"-"})
              /\ AllIn(t, p + 1, h, WordChars \cup {"-"})

(***************************************************************************)
(* URL_PATTERN (Gruber's), case-insensitive, searched in one piece.  Each  *)
(* operator gives the set of positions at which a match of a part of the   *)
(* pattern that starts at position i can end (the position after it).      *)
(***************************************************************************)
NoParen(c) == c \notin (WhiteSpace \cup Brackets)

\* [^\s()<>]+
NoParenRun(t, i) ==
  {j \in (i + 1)..(Len(t) + 1) : \A k \in i..(j - 1) : NoParen(t[k])}

\* \([^\s()<>]+\)
InnerParens(t, i) ==
  IF i <= Len(t) /\ t[i] = "("
  THEN {j + 1 : j \in {k \in NoParenRun(t, i + 1) : k <= Len(t) /\ t[k] = ")"}}
  ELSE {}

\* zero or more of ([^\s()<>]+|(\([^\s()<>]+\))), from any position of from
RECURSIVE ParenBody(_, _, _)
ParenBody(t, from, fuel) ==
  LET more == from \cup UNION {NoParenRun(t, i) \cup InnerParens(t, i) : i \in from}
  IN IF fuel = 0 \/ more = from THEN from ELSE ParenBody(t, more, fuel - 1)

\* \(([^\s()<>]+|(\([^\s()<>]+\)))*\)
Parens(t, i) ==
  IF i <= Len(t) /\ t[i] = "("
  THEN {j + 1 : j \in {k \in ParenBody(t, {i + 1}, Len(t)) : k <= Len(t) /\ t[k] = ")"}}
  ELSE {}

\* (?:[^\s()<>]+|\(...\))+ : one or more, from any position of from
RECURSIVE UrlMiddle(_, _, _)
UrlMiddle(t, from, fuel) ==
  LET first == UNION {NoParenRun(t, i) \cup Parens(t, i) : i \in from}
  IN IF fuel = 0 \/ first = {} THEN first
     ELSE first \cup UrlMiddle(t, first, fuel - 1)

\* (?:\(...\)|[^\s`!()\[\]{};:'".,<>?...])
UrlEnd(t, i) ==
  Parens(t, i) \cup (IF i <= Len(t) /\ t[i] \notin NoUrlEnd THEN {i + 1} ELSE {})

\* [a-z][\w-]+:(?:\/{1,3}|[a-z0-9%])
UrlScheme(t, i) ==
  IF i <= Len(t) /\ t[i] \in Letters
  THEN UNION {
         IF c <= Len(t) /\ t[c] = ":"
         THEN {j \in (c + 2)..(c + 4) :
                  j <= Len(t) + 1 /\ \A k \in (c + 1)..(j - 1) : t[k] = "/"}
              \cup (IF c + 1 <= Len(t) /\ t[c + 1] \in (Letters \cup Digits \cup {"%"})
                    THEN {c + 2} ELSE {})
         ELSE {}
         : c \in {j \in (i + 2)..(Len(t) + 1) :
                     AllIn(t, i + 1, j, WordChars \cup {"-"})}}
  ELSE {}

\* www\d{0,3}[.]
UrlWww(t, i) ==
  IF i + 2 <= Len(t) /\ t[i] = "w" /\ t[i + 1] = "w" /\ t[i + 2] = "w"
  THEN {d + 1 : d \in {k \in (i + 3)..(i + 6) :
                          /\ k <= Len(t) /\ t[k] = "."
                          /\ \A m \in (i + 3)..(k - 1) : t[m] \in Digits}}
  ELSE {}

\* [a-z0-9.\-]+[.][a-z]{2,4}\/
UrlDomain(t, i) ==
  UNION {
    IF d <= Len(t) /\ t[d] = "."
    THEN {s + 1 : s \in {k \in (d + 3)..(d + 5) :
                            /\ k <= Len(t) /\ t[k] = "/"
                            /\ AllIn(t, d + 1, k, Letters)}}
    ELSE {}
    : d \in {j \in (i + 1)..Len(t) :
                AllIn(t, i, j, Letters \cup Digits \cup {".", "-"})}}

\* \b : a word character on exactly one side of position i
WordBoundary(t, i) ==
  LET before == i > 1 /\ t[i - 1] \in WordChars
      after == i <= Len(t) /\ t[i] \in WordChars
  IN before # after

UrlMatch(t) ==
  \E i \in 1..Len(t) :
     /\ WordBoundary(t, i)
     /\ \E m \in UrlMiddle(t, UrlScheme(t, i) \cup UrlWww(t, i) \cup UrlDomain(t, i), Len(t)) :
           UrlEnd(t, m) # {}

(***************************************************************************)
(* The pattern matchers (lines 25-29).                                     *)
(***************************************************************************)
isLongEnough(str, requiredLength) == Len(str) > requiredLength

containsUrl(str) == \E k \in 1..Len(Split(str)) : UrlMatch(Split(str)[k])

containsIssueNumber(str) == \E k \in 1..Len(Split(str)) : IssueMatch(Split(str)[k])

(***************************************************************************)
(* A destructuring default (`x = d`): d when the value is undefined.       *)
(***************************************************************************)
OrDefault(opt, d) == IF opt = Undefined THEN d ELSE opt[1]

\* a JavaScript condition on an optional boolean: undefined is falsy
Truthy(opt) == opt # Undefined /\ opt[1]

\* the text of a number in a template literal
Num(n) == ToString(n)

(***************************************************************************)
(* status (lines 19-23): the payload of a status write.                    *)
(***************************************************************************)
\* the payload with the state argument dropped
statusStateDropped(description, state) ==
  [description |-> description,
   state |-> "success",
   context |-> "zappr/pr/specification"]

status(description, state) ==
  [description |-> description,
   state |-> OrDefault(state, "success"),
   context |-> "zappr/pr/specification"]

(***************************************************************************)
(* The evaluators give the message of the Error they throw, or Undefined   *)
(* when they return.                                                       *)
(***************************************************************************)
\* _validateTitle (lines 98-109)
_validateTitle(title, checks) ==
  LET shouldCheckLength == OrDefault(checks[MINIMUM_LENGTH].enabled, TRUE)
      requiredLength == OrDefault(checks[MINIMUM_LENGTH].length, DEFAULT_REQUIRED_LENGTH)
  IN IF shouldCheckLength /\ ~isLongEnough(title, requiredLength)
     THEN Some(<<"PR's title is too short (", Num(Len(title)), "/", Num(requiredLength), ")">>)
     ELSE Undefined

\* checksMapping (lines 138-151): each sub-check's toggle and result
checksMapping(body, checks) ==
  LET requiredLength == OrDefault(checks[MINIMUM_LENGTH].length, DEFAULT_REQUIRED_LENGTH)
  IN (CONTAINS_URL :>
        [enabled |-> OrDefault(checks[CONTAINS_URL], TRUE), fn |-> containsUrl(body)])
     @@ (CONTAINS_ISSUE_NUMBER :>
        [enabled |-> OrDefault(checks[CONTAINS_ISSUE_NUMBER], TRUE),
         fn |-> containsIssueNumber(body)])
     @@ (MINIMUM_LENGTH :>
        [enabled |-> OrDefault(checks[MINIMUM_LENGTH].enabled, TRUE),
         fn |-> isLongEnough(body, requiredLength)])

\* the array that forces the order (lines 154-155)
checkOrder == <<CONTAINS_ISSUE_NUMBER, CONTAINS_URL, MINIMUM_LENGTH>>

\* the step with `success = success || res` outside `if (enabled)`
reduceStepAnyCheck(acc, check, checkName) ==
  [success |-> acc.success \/ check.fn,
   failedChecks |-> IF check.enabled /\ ~check.fn
                    THEN Append(acc.failedChecks, <<"'", checkName, "'">>)
                    ELSE acc.failedChecks]

\* one step of the reduce (lines 156-169)
reduceStep(acc, check, checkName) ==
  IF check.enabled
  THEN [success |-> acc.success \/ check.fn,
        failedChecks |-> IF ~check.fn
                         THEN Append(acc.failedChecks, <<"'", checkName, "'">>)
                         ELSE acc.failedChecks]
  ELSE acc

RECURSIVE reduce(_, _, _)
reduce(mapping, names, acc) ==
  IF names = <<>> THEN acc
  ELSE reduce(mapping, Tail(names), reduceStep(acc, mapping[Head(names)], Head(names)))

\* _validateBody (lines 128-174)
_validateBody(body, checks) ==
  LET r == reduce(checksMapping(body, checks), checkOrder,
                  [success |-> FALSE, failedChecks |-> <<>>])
  IN IF ~r.success
     THEN Some(<<"PR's body failed check ">> \o
               (IF r.failedChecks = <<>> THEN <<"undefined">> ELSE r.failedChecks[1]))
     ELSE Undefined

\* _differsFromPrTemplate (lines 184-186)
_differsFromPrTemplate(content, template) == Trim(content) # Trim(template)

\* _validateTemplate after its await (lines 114-121); template is what the
\* fetch gave: <<>> (null) or <<text>>
_validateTemplate(body, template, checks) ==
  LET shouldCheckWasAdjusted == Truthy(checks[WAS_ADJUSTED])
  IN IF template = Undefined \/ template[1] = <<>>
     THEN Undefined
     ELSE IF shouldCheckWasAdjusted /\ _differsFromPrTemplate(body, template[1])
     THEN Some(<<"PR's body is the same as template">>)
     ELSE Undefined

(***************************************************************************)
(* The gate of execute (line 47): true when there is nothing to do.        *)
(***************************************************************************)
\* the gate without its test of the pull request's state
NothingToDoStateIgnored(payload) ==
  \/ payload.action \notin Actions
  \/ payload.pull_request = Undefined

NothingToDo(payload) ==
  \/ payload.action \notin Actions
  \/ payload.pull_request = Undefined
  \/ "open" # payload.pull_request[1].state

(***************************************************************************)
(* What an evaluator of one call has done so far.                          *)
(***************************************************************************)
NotRun == [state |-> "notrun", error |-> Undefined]
Pending == [state |-> "pending", error |-> Undefined]
Settled(thrown) ==
  [state |-> IF thrown = Undefined THEN "returned" ELSE "threw", error |-> thrown]

(***************************************************************************)
(* The array literal given to Promise.all (lines 78-82), evaluated from    *)
(* left to right inside the try block.  _validateTitle and _validateBody   *)
(* are not async: an Error of theirs is thrown while the array is built,   *)
(* and what follows them in the array is not called.  _validateTemplate    *)
(* is async: the call runs up to its await, the template fetch issued.     *)
(* thrown is the Error that reaches the catch block, if any.               *)
(***************************************************************************)
\* the array with every evaluator async: all three are started, the fetch is
\* issued, and the first rejection in the array's order reaches the catch block
startEvaluatorsAllAsync(pr, checks) ==
  LET titleError == _validateTitle(pr.title, checks.title)
      bodyError == _validateBody(pr.body, checks.body)
  IN [title |-> Settled(titleError), template |-> Pending, body |-> Settled(bodyError),
      thrown |-> IF titleError # Undefined THEN titleError ELSE bodyError]

\* the array with the body evaluator first
startEvaluatorsBodyFirst(pr, checks) ==
  LET titleError == _validateTitle(pr.title, checks.title)
      bodyError == _validateBody(pr.body, checks.body)
  IN IF bodyError # Undefined
     THEN [title |-> NotRun, template |-> NotRun,
           body |-> Settled(bodyError), thrown |-> bodyError]
     ELSE [title |-> Settled(titleError), template |-> IF titleError # Undefined
                                                      THEN NotRun ELSE Pending,
           body |-> Settled(Undefined), thrown |-> titleError]

startEvaluators(pr, checks) ==
  LET titleError == _validateTitle(pr.title, checks.title)
      bodyError == _validateBody(pr.body, checks.body)
  IN IF titleError # Undefined
     THEN [title |-> Settled(titleError), template |-> NotRun,
           body |-> NotRun, thrown |-> titleError]
     ELSE [title |-> Settled(Undefined), template |-> Pending,
           body |-> Settled(bodyError), thrown |-> bodyError]

\* github.setCommitStatus is called with the payload st: a request is sent
SetCommitStatus(r, st) ==
  /\ statusWrites' = [statusWrites EXCEPT ![r] = Append(@, st)]
  /\ statusAck' = [statusAck EXCEPT ![r] = "pending"]

\* a catch block that throws the Error again: no status write
CatchRethrow(r, e) ==
  /\ pc' = [pc EXCEPT ![r] = "done"]
  /\ UNCHANGED <<statusWrites, statusAck>>

\* a catch block followed by the success write, which was left outside the try
CatchFallThrough(r, e) ==
  /\ statusWrites' = [statusWrites EXCEPT ![r] =
        @ \o <<status(e, Some("failure")),
               status(<<"PR has passed specification checks">>, Undefined)>>]
  /\ statusAck' = [statusAck EXCEPT ![r] = "pending"]
  /\ pc' = [pc EXCEPT ![r] = "awaitStatus"]

\* the catch block of validate (lines 86-90)
Catch(r, e) ==
  /\ SetCommitStatus(r, status(e, Some("failure")))
  /\ pc' = [pc EXCEPT ![r] = "awaitStatus"]

\* the Error of info's `pr.number` (line 48) when there is no pull request
NoPullRequestError == <<"TypeError: Cannot read property 'number' of undefined">>
\* the errors of the collaborator's requests
FetchError == <<"readPullRequestTemplate failed">>
StatusWriteError == <<"setCommitStatus failed">>

(***************************************************************************)
(* execute (lines 44-53) up to the first await of validate (lines 68-82),  *)
(* started being what building the array of evaluators gave.               *)
(***************************************************************************)
execute(r, started) ==
  /\ pc[r] = "start"
  /\ IF NothingToDo(hookPayload)
     THEN /\ pc' = [pc EXCEPT ![r] = "done"]
          /\ execResult' = [execResult EXCEPT ![r] =
                IF hookPayload.pull_request = Undefined
                THEN [state |-> "rejected", error |-> NoPullRequestError]
                ELSE [state |-> "resolved", error |-> <<>>]]
          /\ UNCHANGED <<outcome, fetch, fetchCount, statusWrites, statusAck>>
     ELSE /\ outcome' = [outcome EXCEPT ![r] =
                [title |-> started.title, template |-> started.template,
                 body |-> started.body]]
          /\ IF started.template.state = "pending"
             THEN /\ fetch' = [fetch EXCEPT ![r] = "pending"]
                  /\ fetchCount' = [fetchCount EXCEPT ![r] = @ + 1]
             ELSE UNCHANGED <<fetch, fetchCount>>
          /\ IF started.thrown # Undefined
             THEN Catch(r, started.thrown[1])
             ELSE /\ pc' = [pc EXCEPT ![r] = "awaitAll"]
                  /\ UNCHANGED <<statusWrites, statusAck>>
          /\ UNCHANGED execResult
  /\ UNCHANGED <<hookPayload, config, templateFile, runs>>

\* the evaluators racing: when the title and the body both fail, either Error
\* may be the one that reaches the catch block
ExecuteRacing(r) ==
  IF NothingToDo(hookPayload)
  THEN execute(r, NotRun)
  ELSE \E started \in {startEvaluators(hookPayload.pull_request[1], config),
                        startEvaluatorsBodyFirst(hookPayload.pull_request[1], config)} :
          execute(r, started)

Execute(r) ==
  execute(r, startEvaluators(hookPayload.pull_request[1], config))

(***************************************************************************)
(* The collaborator answers the template fetch: with the template, or      *)
(* with an error (transport, authentication).                              *)
(***************************************************************************)
TemplateResponse(r) ==
  /\ fetch[r] = "pending"
  /\ \E answer \in {"fulfilled", "rejected"} : fetch' = [fetch EXCEPT ![r] = answer]
  /\ UNCHANGED <<hookPayload, config, templateFile, runs, pc, outcome, fetchCount,
                 statusWrites, statusAck, execResult>>

(***************************************************************************)
(* _validateTemplate goes on after its await (lines 113-121): the Error of *)
(* the fetch is thrown out of it, the template is checked.                 *)
(***************************************************************************)
ValidateTemplateResume(r) ==
  /\ fetch[r] \in {"fulfilled", "rejected"}
  /\ outcome[r].template.state = "pending"
  /\ outcome' = [outcome EXCEPT ![r].template =
        IF fetch[r] = "rejected"
        THEN Settled(Some(FetchError))
        ELSE Settled(_validateTemplate(hookPayload.pull_request[1].body,
                                       templateFile, config.template))]
  /\ UNCHANGED <<hookPayload, config, templateFile, runs, pc, fetch, fetchCount,
                 statusWrites, statusAck, execResult>>

(***************************************************************************)
(* validate goes on after `await Promise.all` (lines 78-90): the promise   *)
(* of _validateTemplate is the only one in the array.                      *)
(***************************************************************************)
\* validate without the await: it goes on while the template is pending
ValidateResumeNoAwait(r) ==
  /\ pc[r] = "awaitAll"
  /\ IF outcome[r].template.state # "threw"
     THEN /\ SetCommitStatus(r, status(<<"PR has passed specification checks">>, Undefined))
          /\ pc' = [pc EXCEPT ![r] = "awaitStatus"]
     ELSE Catch(r, outcome[r].template.error[1])
  /\ UNCHANGED <<hookPayload, config, templateFile, runs, outcome, fetch, fetchCount,
                 execResult>>

ValidateResume(r) ==
  /\ pc[r] = "awaitAll"
  /\ outcome[r].template.state \in {"returned", "threw"}
  /\ IF outcome[r].template.state = "returned"
     THEN /\ SetCommitStatus(r, status(<<"PR has passed specification checks">>, Undefined))
          /\ pc' = [pc EXCEPT ![r] = "awaitStatus"]
     ELSE Catch(r, outcome[r].template.error[1])
  /\ UNCHANGED <<hookPayload, config, templateFile, runs, outcome, fetch, fetchCount,
                 execResult>>

(***************************************************************************)
(* The collaborator answers the status write; validate returned its        *)
(* promise (lines 84, 88), which execute awaits (line 52).                 *)
(***************************************************************************)
StatusResponse(r) ==
  /\ pc[r] = "awaitStatus"
  /\ statusAck[r] = "pending"
  /\ \E answer \in {"ok", "error"} :
        /\ statusAck' = [statusAck EXCEPT ![r] = answer]
        /\ execResult' = [execResult EXCEPT ![r] =
              IF answer = "ok" THEN [state |-> "resolved", error |-> <<>>]
              ELSE [state |-> "rejected", error |-> StatusWriteError]]
  /\ pc' = [pc EXCEPT ![r] = "done"]
  /\ UNCHANGED <<hookPayload, config, templateFile, runs, outcome, fetch, fetchCount,
                 statusWrites>>

(***************************************************************************)
(* _validateBody called on its own.                                        *)
(***************************************************************************)
ValidateBodyCall(r) ==
  /\ pc[r] = "start"
  /\ outcome' = [outcome EXCEPT ![r].body =
        Settled(_validateBody(hookPayload.pull_request[1].body, config.body))]
  /\ pc' = [pc EXCEPT ![r] = "done"]
  /\ UNCHANGED <<hookPayload, config, templateFile, runs, fetch, fetchCount,
                 statusWrites, statusAck, execResult>>

(***************************************************************************)
(* The inputs.                                                             *)
(***************************************************************************)
MaxWords == 2

Words ==
  { <<>>,
    <<"a">>,
    <<"#", "1">>,
    <<"#", "1", "\n">>,
    <<"a", "/", "a", "#", "1">>,
    <<"a", "a", ":", "/", "a", "a">>,
    <<"w", "w", "w", ".", "a", "(", "a", ")">> }

RECURSIVE Join(_)
Join(ws) == IF Len(ws) = 1 THEN ws[1] ELSE ws[1] \o <<" ">> \o Join(Tail(ws))

\* the texts of at most MaxWords words with one blank between two words
Bodies == {Join(ws) : ws \in UNION {[1..n -> Words] : n \in 1..MaxWords}}

Toggles == {Undefined, Some(TRUE), Some(FALSE)}
Switches == {Undefined, Some(FALSE)}

TitleOf(n) == [i \in 1..n |-> "a"]

BodyConfigs ==
  {(MINIMUM_LENGTH :> [enabled |-> e, length |-> l]) @@ (CONTAINS_URL :> u)
     @@ (CONTAINS_ISSUE_NUMBER :> i) :
     e \in Toggles, l \in {Undefined, Some(2), Some(6)}, u \in Toggles, i \in Toggles}

EventBodyConfigs ==
  {(MINIMUM_LENGTH :> [enabled |-> e, length |-> Undefined]) @@ (CONTAINS_URL :> u)
     @@ (CONTAINS_ISSUE_NUMBER :> i) :
     e \in Switches, u \in Switches, i \in Switches}

EventTitleConfigs ==
  {(MINIMUM_LENGTH :> [enabled |-> e, length |-> l]) :
     e \in Switches, l \in {Undefined, Some(3)}}

TemplateConfigs == {(WAS_ADJUSTED :> w) : w \in Toggles}

EventTitles == {TitleOf(3), TitleOf(8), TitleOf(9)}
EventBodies == {<<"a">>, <<"#", "1">>, <<"#", "1", "\n">>, <<"a", "a", ":", "/", "a", "a">>}
Templates == {Undefined, Some(<<>>), Some(<<"#", "1", " ">>)}

InitRuns ==
  /\ pc = [r \in runs |-> "start"]
  /\ outcome = [r \in runs |-> [title |-> NotRun, template |-> NotRun, body |-> NotRun]]
  /\ fetch = [r \in runs |-> "none"]
  /\ fetchCount = [r \in runs |-> 0]
  /\ statusWrites = [r \in runs |-> <<>>]
  /\ statusAck = [r \in runs |-> "none"]
  /\ execResult = [r \in runs |-> [state |-> "pending", error |-> <<>>]]

InitEvent ==
  /\ hookPayload \in
        [action : Actions \cup {"closed"},
         pull_request : {Undefined} \cup
            {Some([state |-> s, title |-> t, body |-> b]) :
               s \in {"open", "closed"}, t \in EventTitles, b \in EventBodies}]
  /\ config \in [title : EventTitleConfigs, body : EventBodyConfigs,
                  template : TemplateConfigs]
  /\ templateFile \in Templates

\* one call of execute
Init == InitEvent /\ runs = {1} /\ InitRuns

Next ==
  \/ \E r \in runs : Execute(r)
  \/ \E r \in runs : TemplateResponse(r)
  \/ \E r \in runs : ValidateTemplateResume(r)
  \/ \E r \in runs : ValidateResume(r)
  \/ \E r \in runs : StatusResponse(r)

Spec == Init /\ [][Next]_vars

\* two calls of execute with the same event, configuration and template
InitTwice == InitEvent /\ runs = {1, 2} /\ InitRuns

SpecTwice == InitTwice /\ [][Next]_vars

\* _validateBody alone, on every text of Bodies under every configuration
InitBody ==
  /\ hookPayload \in
        [action : {"opened"},
         pull_request : {Some([state |-> "open", title |-> <<>>, body |-> b]) :
                           b \in Bodies}]
  /\ config \in [title : {(MINIMUM_LENGTH :> [enabled |-> Undefined, length |-> Undefined])},
                  body : BodyConfigs,
                  template : {(WAS_ADJUSTED :> Undefined)}]
  /\ templateFile = Undefined
  /\ runs = {1}
  /\ InitRuns

NextBody == \E r \in runs : ValidateBodyCall(r)

SpecBody == InitBody /\ [][NextBody]_vars

(***************************************************************************)
(* The properties.  What they say of the event, the configuration and the  *)
(* sub-checks is written out here, apart from the operators above.         *)
(***************************************************************************)
HasPullRequest == hookPayload.pull_request # Undefined
PullRequest == hookPayload.pull_request[1]

EligibleEvent ==
  /\ hookPayload.action \in {"opened", "edited", "reopened", "synchronize"}
  /\ HasPullRequest
  /\ PullRequest.state = "open"

Evaluators == {"title", "template", "body"}

TitleError == _validateTitle(PullRequest.title, config.title)
BodyError == _validateBody(PullRequest.body, config.body)
TitlePasses == TitleError = Undefined
BodyPasses == BodyError = Undefined

SuccessStatus ==
  [description |-> <<"PR has passed specification checks">>,
   state |-> "success", context |-> "zappr/pr/specification"]
FailureStatus(reason) ==
  [description |-> reason, state |-> "failure", context |-> "zappr/pr/specification"]

\* C1: an event whose action is outside {opened, edited, reopened,
\* synchronize} or whose pull request is not open never gets a status write,
\* a template fetch or an evaluator run.
C1_NoWorkWhenIneligible ==
  \A r \in runs :
     ~EligibleEvent =>
        /\ statusWrites[r] = <<>>
        /\ statusAck[r] = "none"
        /\ fetchCount[r] = 0
        /\ fetch[r] = "none"
        /\ \A e \in Evaluators : outcome[r][e].state = "notrun"

\* an edited pull request that is closed has been handled
C1_Witness ==
  \E r \in runs :
     /\ pc[r] = "done"
     /\ HasPullRequest
     /\ hookPayload.action = "edited"
     /\ PullRequest.state = "closed"
     /\ execResult[r].state = "resolved"

\* C2: an eligible event gets exactly one status write: never two at any
\* time, and one once validate has gone through, on every path.
C2_ExactlyOneStatusWrite ==
  \A r \in runs :
     /\ Len(statusWrites[r]) <= 1
     /\ (EligibleEvent /\ pc[r] \in {"awaitStatus", "done"}) => Len(statusWrites[r]) = 1

\* the call is over for an event whose body passes and whose template fails
C2_Witness ==
  \E r \in runs :
     /\ EligibleEvent /\ pc[r] = "done"
     /\ TitlePasses /\ BodyPasses
     /\ outcome[r].template.state = "threw"
     /\ fetch[r] = "fulfilled"
     /\ Len(statusWrites[r]) = 1

\* C3: the template evaluator passes when there is no template, passes when
\* was-adjusted is off, and with was-adjusted on fails exactly when the
\* trimmed body equals the trimmed template.
C3_TemplateFailsIffUnchanged ==
  \A r \in runs :
     (fetch[r] = "fulfilled" /\ outcome[r].template.state \in {"returned", "threw"}) =>
        (outcome[r].template.state = "threw"
           <=> /\ templateFile # Undefined
               /\ templateFile[1] # <<>>
               /\ config.template[WAS_ADJUSTED] = Some(TRUE)
               /\ Trim(PullRequest.body) = Trim(templateFile[1]))

\* the sub-checks of the body as the configuration and the text give them
SubChecks == <<"contains-issue-number", "contains-url", "minimum-length">>

SubCheckEnabled(name) ==
  IF name = "minimum-length"
  THEN config.body[name].enabled # Some(FALSE)
  ELSE config.body[name] # Some(FALSE)

SubCheckTrue(name) ==
  CASE name = "contains-issue-number" -> containsIssueNumber(PullRequest.body)
    [] name = "contains-url" -> containsUrl(PullRequest.body)
    [] name = "minimum-length" ->
         Len(PullRequest.body) >
            (IF config.body[name].length = Undefined THEN 8
             ELSE config.body[name].length[1])

\* C4: the body evaluator passes exactly when an enabled sub-check is true;
\* a true sub-check that is disabled does not count, and with no sub-check
\* enabled it fails.
C4_BodyPassesIffEnabledCheckTrue ==
  \A r \in runs :
     outcome[r].body.state # "notrun" =>
        (outcome[r].body.state = "returned"
           <=> \E k \in 1..3 : SubCheckEnabled(SubChecks[k]) /\ SubCheckTrue(SubChecks[k]))

\* the body evaluator has failed a text that holds an issue number, that
\* sub-check being disabled and the enabled ones false
C4_Witness ==
  \E r \in runs :
     /\ outcome[r].body.state = "threw"
     /\ SubCheckTrue("contains-issue-number")
     /\ ~SubCheckEnabled("contains-issue-number")
     /\ SubCheckEnabled("contains-url")

\* C5: the status write is a success with the fixed description exactly
\* when the three evaluators pass, and otherwise a failure whose description
\* is the reason of one evaluator that failed.
C5_VerdictFollowsEvaluators ==
  \A r \in runs :
     \A i \in 1..Len(statusWrites[r]) :
        LET w == statusWrites[r][i]
            allPass == TitlePasses /\ BodyPasses /\ outcome[r].template.state = "returned"
            reasons == (IF TitlePasses THEN {} ELSE {TitleError[1]})
                       \cup (IF BodyPasses THEN {} ELSE {BodyError[1]})
                       \cup (IF outcome[r].template.state = "threw"
                             THEN {outcome[r].template.error[1]} ELSE {})
        IN /\ w.context = "zappr/pr/specification"
           /\ allPass => w = SuccessStatus
           /\ ~allPass => w.state = "failure" /\ w.description \in reasons

\* a failure has been written for an event whose title and body both fail
C5_Witness ==
  \E r \in runs :
     /\ EligibleEvent
     /\ ~TitlePasses /\ ~BodyPasses
     /\ statusWrites[r] = <<FailureStatus(TitleError[1])>>

\* C6, as claimed: a template fetch that fails while validate awaits the
\* evaluators leaves the call without any status write.
C6_FetchErrorWritesNothing ==
  \A r \in runs :
     (fetch[r] = "rejected" /\ outcome[r].body.state = "returned") =>
        statusWrites[r] = <<>>

\* C6, amended: a template fetch that fails never makes execute fail; its
\* Error is caught and written as a failure status with the Error's message
\* (the body's reason when the body evaluator had failed before), and
\* execute only fails when the status write does.
C6_FetchErrorBecomesFailureStatus ==
  \A r \in runs :
     fetch[r] = "rejected" =>
        /\ execResult[r].error # FetchError
        /\ execResult[r].state = "rejected" => statusAck[r] = "error"
        /\ pc[r] \in {"awaitStatus", "done"} =>
              statusWrites[r] =
                 <<FailureStatus(IF BodyPasses THEN FetchError ELSE BodyError[1])>>

\* the call is over, the fetch failed and its Error is in the status written
C6_Witness ==
  \E r \in runs :
     /\ pc[r] = "done"
     /\ fetch[r] = "rejected"
     /\ statusWrites[r] = <<FailureStatus(FetchError)>>
     /\ execResult[r].state = "resolved"

\* C7, as claimed: for an eligible event the three evaluators are started
\* and the template is fetched exactly once.
C7_AllEvaluatorsAlwaysRun ==
  \A r \in runs :
     (EligibleEvent /\ pc[r] # "start") =>
        /\ fetchCount[r] = 1
        /\ \A e \in Evaluators : outcome[r][e].state # "notrun"

\* C7, amended: the title evaluator always runs; when it passes, the
\* template is fetched exactly once and the body evaluator runs, whatever
\* the body evaluator finds; when it fails, the template and the body
\* evaluators are not started and nothing is fetched.
C7_TitleFailureStopsTheOthers ==
  \A r \in runs :
     (EligibleEvent /\ pc[r] # "start") =>
        /\ outcome[r].title.state # "notrun"
        /\ TitlePasses =>
              /\ fetchCount[r] = 1
              /\ outcome[r].template.state # "notrun"
              /\ outcome[r].body.state # "notrun"
        /\ ~TitlePasses =>
              /\ fetchCount[r] = 0
              /\ fetch[r] = "none"
              /\ outcome[r].template.state = "notrun"
              /\ outcome[r].body.state = "notrun"

\* the call is over for a title that fails: nothing was fetched
C7_Witness ==
  \E r \in runs :
     /\ EligibleEvent /\ pc[r] = "done"
     /\ ~TitlePasses
     /\ fetchCount[r] = 0
     /\ Len(statusWrites[r]) = 1

\* C8, as claimed: no status write while the template fetch is outstanding.
C8_NoWriteWhileFetching ==
  \A r \in runs : statusWrites[r] # <<>> => fetch[r] # "pending"

\* C8, amended: a status is written while the template fetch or the
\* template evaluator is outstanding only when the body evaluator failed,
\* and it is the body's failure; when the body passes the status is written
\* after the template evaluator has settled.
C8_WriteWhileFetchingOnlyOnBodyFailure ==
  \A r \in runs :
     (statusWrites[r] # <<>> /\ (fetch[r] = "pending" \/ outcome[r].template.state = "pending")) =>
        /\ TitlePasses
        /\ ~BodyPasses
        /\ statusWrites[r] = <<FailureStatus(BodyError[1])>>

\* the body's failure is written and the template fetch is outstanding
C8_Witness ==
  \E r \in runs :
     /\ statusWrites[r] # <<>>
     /\ fetch[r] = "pending"
     /\ statusWrites[r][1].state = "failure"

\* C9: a failure of the body evaluator names one sub-check, the first in
\* the order contains-issue-number, contains-url, minimum-length that is
\* enabled and false.
C9_BodyFailureNamesFirstFailing ==
  \A r \in runs :
     outcome[r].body.state = "threw" =>
        \E k \in 1..3 :
           /\ SubCheckEnabled(SubChecks[k]) /\ ~SubCheckTrue(SubChecks[k])
           /\ \A j \in 1..(k - 1) : ~(SubCheckEnabled(SubChecks[j]) /\ ~SubCheckTrue(SubChecks[j]))
           /\ outcome[r].body.error[1] = <<"PR's body failed check ", "'", SubChecks[k], "'">>

\* C10: two calls with the same event, configuration and template, whose
\* template fetches were answered alike, write the same status, whenever
\* the answers came.
C10_SameInputsSameVerdict ==
  \A r1 \in runs : \A r2 \in runs :
     (statusWrites[r1] # <<>> /\ statusWrites[r2] # <<>> /\ fetch[r1] = fetch[r2]) =>
        statusWrites[r1] = statusWrites[r2]

\* both calls have written for an event whose title and body both fail
C10_Witness ==
  \E r1 \in runs : \E r2 \in runs :
     /\ r1 # r2
     /\ EligibleEvent
     /\ ~TitlePasses /\ ~BodyPasses
     /\ pc[r1] = "done" /\ pc[r2] = "awaitStatus"
     /\ statusWrites[r1] # <<>> /\ statusWrites[r2] # <<>>

====
